---------------------------- MODULE Spec2Model ----------------------------
(***************************************************************************)
(* View-state model of the react-tdd tutorial components:                  *)
(*   Quote          (my-react-app/src/Quote.jsx)                           *)
(*   Spinner        (Spinner.jsx, unnamed/part_001)                        *)
(*   QuoteLoader    (my-react-app/src/QuoteLoader.jsx)                     *)
(*   QuoteUploader  (my-react-app/src/Quote.spec.jsx, lines 94-106)        *)
(* together with the msw stub routes of the test files and the hook        *)
(* machinery the components call (useState, useFetch).                     *)
(*                                                                         *)
(* A page holds a fixed set of slots; render(<X .../>) mounts a component  *)
(* instance into a free slot.  State updates requested by setState are     *)
(* queued and applied by the next render of the instance, as React does.   *)
(***************************************************************************)
EXTENDS Integers, Sequences, FiniteSets, TLC

(***************************************************************************)
(* Bounds of the model.                                                    *)
(***************************************************************************)
MaxClicks == 3

MaxRequests == 3

Slots == {1, 2}

(***************************************************************************)
(* JavaScript / JSON values.  A primitive is [t, v]; v holds the literal   *)
(* as text.  A document (a parsed JSON body, or a props object) carries    *)
(* the fields the programs read: text, author and status.                  *)
(***************************************************************************)
Undefined == [t |-> "undefined", v |-> ""]

Null == [t |-> "null", v |-> ""]

Str(s) == [t |-> "string", v |-> s]

Num(s) == [t |-> "number", v |-> s]

Bool(s) == [t |-> "boolean", v |-> s]

NestedObject == [t |-> "object", v |-> "[object Object]"]

ObjDoc(text, author, status) ==
    [t |-> "object", v |-> "", text |-> text, author |-> author, status |-> status]

PrimDoc(p) ==
    [t |-> p.t, v |-> p.v, text |-> Undefined, author |-> Undefined, status |-> Undefined]

UndefinedDoc == PrimDoc(Undefined)

\* JavaScript truthiness, as used by `if (error)`, `if (data)` and `!req.text`.
Truthy(x) ==
    CASE x.t = "undefined" -> FALSE
      [] x.t = "null"      -> FALSE
      [] x.t = "boolean"   -> x.v = "true"
      [] x.t = "number"    -> x.v \notin {"0", "NaN"}
      [] x.t = "string"    -> x.v # ""
      [] OTHER             -> TRUE

\* A misspelt property name: the access yields undefined.
DataText_misspelt(d) == Undefined

\* data.text: property access on a parsed body.
DataText(d) == IF d.t = "object" THEN d.text ELSE Undefined

(***************************************************************************)
(* JSON.stringify of a props object and request.json() on the server.      *)
(* The wire form lists the members that survive serialisation, in          *)
(* insertion order: members whose value is undefined are dropped.          *)
(***************************************************************************)
Member(name, p) == IF p.t = "undefined" THEN <<>> ELSE <<[name |-> name, value |-> p]>>

JSONstringify(o) == Member("text", o.text) \o Member("author", o.author)

WireField(w, name) ==
    IF \E k \in DOMAIN w : w[k].name = name
    THEN w[CHOOSE k \in DOMAIN w : w[k].name = name].value
    ELSE Undefined

RequestJson(w) == ObjDoc(WireField(w, "text"), WireField(w, "author"), WireField(w, "status"))

(***************************************************************************)
(* HTTP responses.                                                         *)
(***************************************************************************)
NoResponse == [type |-> "none", status |-> 0, bodyKind |-> "empty", json |-> UndefinedDoc, text |-> ""]

\* HttpResponse.error(): the fetch promise rejects.
NetworkError == [type |-> "error", status |-> 0, bodyKind |-> "empty", json |-> UndefinedDoc, text |-> ""]

\* HttpResponse.json(doc, {status}).
JsonResponse(status, doc) ==
    [type |-> "basic", status |-> status, bodyKind |-> "json", json |-> doc, text |-> ""]

\* new HttpResponse(text, {status}).
TextResponse(status, text) ==
    [type |-> "basic", status |-> status, bodyKind |-> "text", json |-> UndefinedDoc, text |-> text]

\* A response without a body (204 No Content).
EmptyResponse(status) ==
    [type |-> "basic", status |-> status, bodyKind |-> "empty", json |-> UndefinedDoc, text |-> ""]

\* A hook that does not look at the status of the response.
ResponseOk_anyStatus(r) == r.type = "basic"

ResponseOk(r) == r.type = "basic" /\ r.status >= 200 /\ r.status <= 299


(***************************************************************************)
(* The stub Quote API of the test files (msw handlers), and the network    *)
(* behind it.  A handler yields the set of responses it can produce.       *)
(***************************************************************************)
GetUrl == "https://example.com/quoteoftheday"

PostUrl == "https://example.com/quote"

\* msw turns an exception thrown by a handler into a 500 response.
UnhandledException ==
    [type |-> "basic", status |-> 500, bodyKind |-> "json", json |-> ObjDoc(Undefined, Undefined, Undefined), text |-> ""]

\* HttpResponse.json({}, { status: 204 }): a body given together with a
\* null-body status.  Depending on the msw / undici build the Response
\* constructor throws (and msw answers 500) or the body is dropped.
NoContentWithBody == {UnhandledException, EmptyResponse(204)}

\* http.get(".../quoteoftheday", ...) of QuoteLoader.spec.jsx and part_002.
stubGetQuoteOfTheDay == {JsonResponse(200, ObjDoc(Str("Just do it"), Undefined, Undefined))}

\* http.post(".../quote", ...) of QuoteLoader.spec.jsx and part_002.
stubPostQuoteLoaderSpec(wire) ==
    LET req == RequestJson(wire) IN
    IF ~Truthy(req.text)
    THEN {TextResponse(400, "Missing quote text")}
    ELSE NoContentWithBody

\* The handler of part_003 without its typeof check.
stubPostQuoteUploaderSpec_noTypeCheck(wire) ==
    IF RequestJson(wire).text.t \in {"undefined", "null"}
    THEN {TextResponse(400, "Missing quote text")}
    ELSE {JsonResponse(200, ObjDoc(Undefined, Undefined, Num("204")))}

\* http.post(".../quote", ...) of the QuoteUploader test (part_003).
stubPostQuoteUploaderSpec(wire) ==
    LET req == RequestJson(wire) IN
    IF req.text.t \in {"undefined", "null"}
    THEN {TextResponse(400, "Missing quote text")}
    ELSE IF req.text.t # "string"
         THEN {TextResponse(400, "String required for field text")}
         ELSE {JsonResponse(200, ObjDoc(Undefined, Undefined, Num("204")))}

\* Which stub server is listening: the one of the QuoteLoader test file, the
\* one of the QuoteUploader test file, or none (requests reach the network).
Servers == {"QuoteLoaderSpec", "QuoteUploaderSpec", "none"}

\* Responses the network can give to a GET that no stub handles.
GetResponses ==
    { NetworkError,
      JsonResponse(200, ObjDoc(Str("Just do it"), Undefined, Undefined)),
      JsonResponse(200, ObjDoc(Str("Truth eludes power"), Undefined, Undefined)),
      JsonResponse(200, ObjDoc(Undefined, Undefined, Undefined)),
      JsonResponse(200, PrimDoc(Null)),
      JsonResponse(200, ObjDoc(NestedObject, Undefined, Undefined)),
      JsonResponse(404, ObjDoc(Str("No quote today"), Undefined, Undefined)),
      TextResponse(500, "Internal Server Error") }

\* Responses the network can give to a POST that no stub handles.
PostResponses ==
    { NetworkError,
      EmptyResponse(204),
      TextResponse(400, "Missing quote text") }

\* The responses the listening server can give to a request.
Handle(srv, method, wire) ==
    IF method = "GET"
    THEN IF srv = "QuoteLoaderSpec" THEN stubGetQuoteOfTheDay ELSE GetResponses
    ELSE CASE srv = "QuoteLoaderSpec"   -> stubPostQuoteLoaderSpec(wire)
           [] srv = "QuoteUploaderSpec" -> stubPostQuoteUploaderSpec(wire)
           [] OTHER                     -> PostResponses

(***************************************************************************)
(* stubQuoteApi.use(http.get(url, () => HttpResponse.error(), {once:       *)
(* true})) of part_002, lines 48-56: a handler put in front of the routes  *)
(* of the shared stub server.  msw picks the handler of a request when     *)
(* fetch() is called; `taken` lists the requests (owner, id) it picked     *)
(* the one-shot handler for, and `test` is the instance that the test      *)
(* registering the handler renders.                                        *)
(***************************************************************************)
NoOverride == [registered |-> FALSE, used |-> FALSE, test |-> 0, taken |-> {}]

\* use(): the handler is registered by the test that renders instance i.
Use(o, i) == [o EXCEPT !.registered = TRUE, !.test = i]

\* A handler registered without { once: true }.
Takes_everyTime(o, r) == o.registered /\ r.method = "GET" /\ r.url = GetUrl

\* Whether the one-shot handler takes the request: it matches GETs of the
\* quote of the day, and only until it has been used.
Takes(o, r) == o.registered /\ ~o.used /\ r.method = "GET" /\ r.url = GetUrl

\* The handler state after the stub server has picked the handler of r.
Match(o, r) ==
    IF Takes(o, r)
    THEN [o EXCEPT !.used = TRUE, !.taken = @ \cup {<<r.owner, r.id>>}]
    ELSE o

\* The responses the stub server can give to r: HttpResponse.error() when
\* the one-shot handler was picked for it, else those of the routes.
Answers(o, srv, r) ==
    IF <<r.owner, r.id>> \in o.taken THEN {NetworkError} ELSE Handle(srv, r.method, r.body)

(***************************************************************************)
(* useFetch (react-fetch-hook), as the components call it: the state it    *)
(* returns on the first render and the state it sets when the fetch        *)
(* promise settles.  The default formatter is response.json().             *)
(***************************************************************************)
NoError == ""

\* A hook that starts idle instead of loading.
FetchInitial_idle == [isLoading |-> FALSE, data |-> PrimDoc(Undefined), error |-> ""]

FetchInitial == [isLoading |-> TRUE, data |-> UndefinedDoc, error |-> NoError]

\* A catch that records the error and forgets to end the loading.
FetchFailed_stillLoading(reason) == [isLoading |-> TRUE, data |-> PrimDoc(Undefined), error |-> reason]

FetchFailed(reason) == [isLoading |-> FALSE, data |-> UndefinedDoc, error |-> reason]

\* A hook without a catch: a rejected fetch leaves the state as it was.
useFetchSettled_noCatch(r) ==
    IF r.type = "error" THEN [isLoading |-> TRUE, data |-> PrimDoc(Undefined), error |-> ""]
    ELSE IF ~ResponseOk(r) THEN [isLoading |-> FALSE, data |-> PrimDoc(Undefined), error |-> "UseFetchError"]
    ELSE IF r.bodyKind # "json" THEN [isLoading |-> FALSE, data |-> PrimDoc(Undefined), error |-> "SyntaxError"]
    ELSE [isLoading |-> FALSE, data |-> r.json, error |-> ""]

useFetchSettled(r) ==
    IF r.type = "error" THEN FetchFailed("TypeError: Failed to fetch")
    ELSE IF ~ResponseOk(r) THEN FetchFailed("UseFetchError")
    ELSE IF r.bodyKind # "json" THEN FetchFailed("SyntaxError")
    ELSE [isLoading |-> FALSE, data |-> r.json, error |-> NoError]

\* An effect without a dependency list runs after every render.
EffectRuns_everyRender(prevDeps, nextDeps) == TRUE

\* The effect of useFetch runs again only when its flattened inputs change.
EffectRuns(prevDeps, nextDeps) == prevDeps # nextDeps

(***************************************************************************)
(* Rendered surface: a sequence of DOM elements.                           *)
(***************************************************************************)
Element(tag, role, level, text) == [tag |-> tag, role |-> role, level |-> level, text |-> text]

Nothing == <<>>

\* How React renders a child value: strings and numbers as text,
\* undefined, null and booleans as nothing.  An object child throws.
ChildThrows(x) == x.t = "object"

ChildText(x) == IF x.t \in {"string", "number"} THEN x.v ELSE ""

\* Spinner.jsx
Spinner(reason) == <<Element("div", "status", 0, ChildText(reason))>>

\* A handler that sets the flag instead of inverting it.
likeThisQuote_setsTrue(liked) == TRUE

\* Quote.jsx, line 7: the value likeThisQuote hands to setLiked.
likeThisQuote(liked) == ~liked

\* A label computed from the negation of the flag.
buttonText_inverted(liked) == IF liked THEN "Like" ELSE "Liked"

\* Quote.jsx, line 10
buttonText(liked) == IF liked THEN "Liked" ELSE "Like"

\* A Quote whose paragraph is a fixed quotation instead of its property.
Quote_fixedText(text, liked) ==
    << Element("h2", "heading", 2, "Quote of the Day"),
       Element("p", "paragraph", 0, "Truth eludes power"),
       Element("button", "button", 0, buttonText(liked)) >>

\* A Quote that replaces its text by a thank-you once it is liked.
Quote_thanksWhenLiked(text, liked) ==
    << Element("h2", "heading", 2, "Quote of the Day"),
       Element("p", "paragraph", 0, IF liked THEN "Thanks!" ELSE ChildText(text)),
       Element("button", "button", 0, buttonText(liked)) >>

\* Quote.jsx, lines 12-18
Quote(text, liked) ==
    << Element("h2", "heading", 2, "Quote of the Day"),
       Element("p", "paragraph", 0, ChildText(text)),
       Element("button", "button", 0, buttonText(liked)) >>

\* Quote.jsx, lines 28-30: likeThisQuote of the version with the inline label.
likeThisQuoteInline(liked) == ~liked

\* An inline label with its two texts the wrong way round.
QuoteInline_swapped(text, liked) ==
    << Element("h2", "heading", 2, "Quote of the Day"),
       Element("p", "paragraph", 0, ChildText(text)),
       Element("button", "button", 0, IF liked THEN "Like" ELSE "Liked") >>

\* Quote.jsx, lines 32-38: the version that computes the label in the button.
QuoteInline(text, liked) ==
    << Element("h2", "heading", 2, "Quote of the Day"),
       Element("p", "paragraph", 0, ChildText(text)),
       Element("button", "button", 0, IF liked THEN "Liked" ELSE "Like") >>

\* The click handler of each version of Quote.
onClick(k, liked) ==
    IF k = "QuoteInline" THEN likeThisQuoteInline(liked) ELSE likeThisQuote(liked)

ErrorMessage == "Error loading quote. Please try again later"

LoadingReason == "Quote is loading..."

SuccessMessage == "Quote uploaded successfully"

\* A QuoteLoader that tests isLoading before error.
QuoteLoaderBranch_loadingFirst(fs) ==
    IF fs.isLoading THEN "spinner"
    ELSE IF fs.error # "" THEN "error"
    ELSE IF Truthy(fs.data) THEN "quote"
    ELSE "nothing"

\* QuoteLoader.jsx: which branch the component returns.
QuoteLoaderBranch(fs) ==
    IF fs.error # NoError THEN "error"
    ELSE IF fs.isLoading THEN "spinner"
    ELSE IF Truthy(fs.data) THEN "quote"
    ELSE "nothing"

\* QuoteLoader.jsx, lines 10-20
QuoteLoader(fs, liked) ==
    CASE QuoteLoaderBranch(fs) = "error"   -> <<Element("p", "paragraph", 0, ErrorMessage)>>
      [] QuoteLoaderBranch(fs) = "spinner" -> Spinner(Str(LoadingReason))
      [] QuoteLoaderBranch(fs) = "quote"   -> Quote(DataText(fs.data), liked)
      [] OTHER                             -> Nothing

\* A QuoteUploader that does not test isLoading.
QuoteUploader_ignoresLoading(fs) ==
    IF fs.error = "" THEN <<Element("p", "paragraph", 0, SuccessMessage)>> ELSE <<>>

\* A first version that shows the author of the quote instead of its text.
QuoteLoaderDataOnly_showsAuthor(fs, liked) ==
    IF Truthy(fs.data) THEN Quote(fs.data.author, liked) ELSE <<>>

\* The first version of QuoteLoader (part_000, lines 4-10): data only.
QuoteLoaderDataOnly(fs, liked) ==
    IF Truthy(fs.data) THEN Quote(DataText(fs.data), liked) ELSE Nothing

\* The second version of QuoteLoader (clicking-around.md, lines 187-197):
\* isLoading, then data.
QuoteLoaderWithSpinner(fs, liked) ==
    IF fs.isLoading THEN Spinner(Str(LoadingReason))
    ELSE IF Truthy(fs.data) THEN Quote(DataText(fs.data), liked)
    ELSE Nothing

\* QuoteUploader (Quote.spec.jsx, line 103)
QuoteUploader(fs) ==
    IF fs.error = NoError /\ ~fs.isLoading
    THEN <<Element("p", "paragraph", 0, SuccessMessage)>>
    ELSE Nothing

\* QuoteUploader (Quote.spec.jsx, lines 96-101): the component's parameter is
\* the whole props object, and that object is what is serialised.
UploadBody(props) == JSONstringify(props)

(***************************************************************************)
(* Component instances.                                                    *)
(***************************************************************************)
Kinds == {"Quote", "QuoteLoader", "QuoteUploader"}

\* The versions of Quote and of QuoteLoader that the repository holds.
QuoteVersions == {"Quote", "QuoteInline"}

LoaderVersions == {"QuoteLoader", "QuoteLoaderDataOnly", "QuoteLoaderWithSpinner"}

Props(text, author) == [text |-> text, author |-> author]

NoProps == Props(Undefined, Undefined)

\* Properties the callers pass: the texts of the tests, a missing text, a
\* text that is not a string, an empty text, and a second property next to
\* text.
PropsOf(k) ==
    CASE k = "Quote" ->
            { Props(Str("Truth eludes power"), Undefined), NoProps,
              Props(Num("42"), Undefined) }
      [] k = "QuoteUploader" ->
            { Props(Str("not much of a quote, is it?"), Undefined),
              NoProps,
              Props(Num("42"), Undefined),
              Props(Null, Undefined),
              Props(Str("Just do it"), Str("Nike")) }
      [] OTHER -> { NoProps }

Fetches(k) == k \in LoaderVersions \cup {"QuoteUploader"}

\* Whether the instance's output holds a Quote, and the text handed to it.
HasQuote(k, fs) ==
    \/ k \in QuoteVersions
    \/ k = "QuoteLoader" /\ QuoteLoaderBranch(fs) = "quote"
    \/ k = "QuoteLoaderDataOnly" /\ Truthy(fs.data)
    \/ k = "QuoteLoaderWithSpinner" /\ ~fs.isLoading /\ Truthy(fs.data)

QuoteText(k, p, fs) == IF k \in QuoteVersions THEN p.text ELSE DataText(fs.data)

RenderThrows(k, p, fs) == HasQuote(k, fs) /\ ChildThrows(QuoteText(k, p, fs))

\* The committed output of one render of an instance.
Output(k, p, fs, lk) ==
    CASE RenderThrows(k, p, fs) -> Nothing
      [] k = "Quote"            -> Quote(p.text, lk)
      [] k = "QuoteInline"      -> QuoteInline(p.text, lk)
      [] k = "QuoteLoader"      -> QuoteLoader(fs, lk)
      [] k = "QuoteLoaderDataOnly"    -> QuoteLoaderDataOnly(fs, lk)
      [] k = "QuoteLoaderWithSpinner" -> QuoteLoaderWithSpinner(fs, lk)
      [] k = "QuoteUploader"    -> QuoteUploader(fs)
      [] OTHER                  -> Nothing

\* The flattened inputs of the instance's useFetch call.
Deps(k, p) ==
    CASE k \in LoaderVersions -> <<GetUrl>>
      [] k = "QuoteUploader" -> <<PostUrl, "POST", UploadBody(p), "Content-Type", "application/json">>
      [] OTHER               -> <<>>

\* A fetch whose result is handed to the first instance of the page,
\* whichever instance issued it.
Request_sharedOwner(i, n, k, p) ==
    IF k \in LoaderVersions
    THEN [owner |-> 1, id |-> n, method |-> "GET", url |-> GetUrl, contentType |-> "",
          body |-> <<>>, stage |-> "sent", response |-> NoResponse]
    ELSE [owner |-> 1, id |-> n, method |-> "POST", url |-> PostUrl,
          contentType |-> "application/json",
          body |-> UploadBody(p), stage |-> "sent", response |-> NoResponse]

\* The request the instance's useFetch call issues.
Request(i, n, k, p) ==
    IF k \in LoaderVersions
    THEN [owner |-> i, id |-> n, method |-> "GET", url |-> GetUrl, contentType |-> "",
          body |-> <<>>, stage |-> "sent", response |-> NoResponse]
    ELSE [owner |-> i, id |-> n, method |-> "POST", url |-> PostUrl,
          contentType |-> "application/json",
          body |-> UploadBody(p), stage |-> "sent", response |-> NoResponse]

Last(q) == q[Len(q)]

(***************************************************************************)
(* State.                                                                  *)
(***************************************************************************)
VARIABLES
    server,      \* the stub server that is listening
    kind,        \* slot -> component mounted in it
    life,        \* slot -> "free", "mounted" or "unmounted"
    props,       \* slot -> the properties the instance was rendered with
    fetchState,  \* slot -> state of useFetch as of the last render
    fetchQueue,  \* slot -> states set by useFetch and not yet rendered
    liked,       \* slot -> state of useState(false) as of the last render
    likedQueue,  \* slot -> values handed to setLiked and not yet rendered
    surface,     \* slot -> the committed DOM of the instance
    crashed,     \* slot -> a render of the instance threw
    net,         \* requests in flight
    sent,        \* slot -> number of requests the instance has issued
    posted,      \* slot -> the requests the instance has issued
    resolved,    \* slot -> the response that settled the instance's request
    discarded,   \* slot -> a response arrived after the instance was unmounted
    clicks,      \* slot -> number of click events handled
    coalesced,   \* slot -> a click was handled before the previous one rendered
    override     \* the one-shot GET handler added to the stub server by use()

vars == << server, kind, life, props, fetchState, fetchQueue, liked, likedQueue,
           surface, crashed, net, sent, posted, resolved, discarded, clicks, coalesced,
           override >>

Init ==
    /\ server \in Servers
    /\ kind = [i \in Slots |-> "none"]
    /\ life = [i \in Slots |-> "free"]
    /\ props = [i \in Slots |-> NoProps]
    /\ fetchState = [i \in Slots |-> FetchInitial]
    /\ fetchQueue = [i \in Slots |-> <<>>]
    /\ liked = [i \in Slots |-> FALSE]
    /\ likedQueue = [i \in Slots |-> <<>>]
    /\ surface = [i \in Slots |-> Nothing]
    /\ crashed = [i \in Slots |-> FALSE]
    /\ net = {}
    /\ sent = [i \in Slots |-> 0]
    /\ posted = [i \in Slots |-> <<>>]
    /\ resolved = [i \in Slots |-> NoResponse]
    /\ discarded = [i \in Slots |-> FALSE]
    /\ clicks = [i \in Slots |-> 0]
    /\ coalesced = [i \in Slots |-> FALSE]
    /\ override = NoOverride

\* A flag kept outside the instance: a new Quote starts with the value an
\* unmounted one left behind.
useStateFalse_persisted(i) == \E j \in Slots : life[j] = "unmounted" /\ liked[j]

\* Quote.jsx, line 4: useState(false), the liked flag of a new Quote.
useStateFalse(i) == FALSE

(***************************************************************************)
(* render(<X .../>): the first render of a new instance, its commit, and   *)
(* the effect of useFetch, which issues the request.                       *)
(***************************************************************************)
MountWith(i, k, p, o) ==
    /\ life[i] = "free"
    /\ \A j \in Slots : j < i => life[j] # "free"
    /\ kind' = [kind EXCEPT ![i] = k]
    /\ life' = [life EXCEPT ![i] = "mounted"]
    /\ props' = [props EXCEPT ![i] = p]
    /\ fetchState' = [fetchState EXCEPT ![i] = FetchInitial]
    /\ liked' = [liked EXCEPT ![i] = useStateFalse(i)]
    /\ surface' = [surface EXCEPT ![i] = Output(k, p, FetchInitial, useStateFalse(i))]
    /\ crashed' = [crashed EXCEPT ![i] = RenderThrows(k, p, FetchInitial)]
    /\ IF Fetches(k) /\ ~RenderThrows(k, p, FetchInitial)
       THEN /\ net' = net \cup {Request(i, 1, k, p)}
            /\ sent' = [sent EXCEPT ![i] = 1]
            /\ posted' = [posted EXCEPT ![i] = <<Request(i, 1, k, p)>>]
            /\ override' = Match(o, Request(i, 1, k, p))
       ELSE /\ override' = o
            /\ UNCHANGED <<net, sent, posted>>
    /\ UNCHANGED <<server, fetchQueue, likedQueue, resolved, discarded, clicks, coalesced>>

Mount(i, k, p) == MountWith(i, k, p, override)

(***************************************************************************)
(* The test "informs the user of errors" (part_002, lines 47-58): use()    *)
(* adds the one-shot handler to the shared stub server, then the test      *)
(* renders its QuoteLoader.                                                *)
(***************************************************************************)
InformsTheUserOfErrors(i) ==
    /\ server = "QuoteLoaderSpec"
    /\ ~override.registered
    /\ MountWith(i, "QuoteLoader", NoProps, Use(override, i))

(***************************************************************************)
(* The listening server (or the network) answers a request.                *)
(***************************************************************************)
Respond(r) ==
    /\ r \in net
    /\ r.stage = "sent"
    /\ \E resp \in Answers(override, server, r) :
          net' = (net \ {r}) \cup {[r EXCEPT !.stage = "responded", !.response = resp]}
    /\ UNCHANGED <<server, kind, life, props, fetchState, fetchQueue, liked, likedQueue,
                   surface, crashed, sent, posted, resolved, discarded, clicks, coalesced,
                   override>>

(***************************************************************************)
(* The fetch promise of a request settles: useFetch sets its state.  A     *)
(* state set on an instance that is no longer mounted is dropped.          *)
(***************************************************************************)
\* A state update that is applied whether or not the instance is mounted.
Accepts_always(i) == TRUE

Accepts(i) == life[i] = "mounted" /\ ~crashed[i]

Deliver(r) ==
    /\ r \in net
    /\ r.stage = "responded"
    /\ net' = net \ {r}
    /\ resolved' = [resolved EXCEPT ![r.owner] = r.response]
    /\ IF Accepts(r.owner)
       THEN /\ fetchQueue' = [fetchQueue EXCEPT ![r.owner] = Append(@, useFetchSettled(r.response))]
            /\ UNCHANGED discarded
       ELSE /\ discarded' = [discarded EXCEPT ![r.owner] = TRUE]
            /\ UNCHANGED fetchQueue
    /\ UNCHANGED <<server, kind, life, props, fetchState, liked, likedQueue,
                   surface, crashed, sent, posted, clicks, coalesced, override>>

(***************************************************************************)
(* A click event on the button of the instance's Quote: likeThisQuote runs *)
(* with the value of liked that the last render closed over.               *)
(***************************************************************************)
HasButton(i) == \E k \in DOMAIN surface[i] : surface[i][k].role = "button"

Click(i) ==
    /\ Accepts(i)
    /\ HasButton(i)
    /\ clicks[i] < MaxClicks
    /\ likedQueue' = [likedQueue EXCEPT ![i] = Append(@, onClick(kind[i], liked[i]))]
    /\ clicks' = [clicks EXCEPT ![i] = @ + 1]
    /\ coalesced' = [coalesced EXCEPT ![i] = @ \/ likedQueue[i] # <<>>]
    /\ UNCHANGED <<server, kind, life, props, fetchState, fetchQueue, liked,
                   surface, crashed, net, sent, posted, resolved, discarded, override>>

(***************************************************************************)
(* React re-renders an instance that has queued state: the queued states   *)
(* are applied in order, the component function runs, its output is        *)
(* committed, and the effect of useFetch runs if its inputs changed.       *)
(***************************************************************************)
Render(i) ==
    /\ Accepts(i)
    /\ fetchQueue[i] # <<>> \/ likedQueue[i] # <<>>
    /\ LET k == kind[i]
           p == props[i]
           fs == IF fetchQueue[i] # <<>> THEN Last(fetchQueue[i]) ELSE fetchState[i]
           fresh == HasQuote(k, fs) /\ ~HasQuote(k, fetchState[i])
           lk == IF fresh THEN useStateFalse(i)
                 ELSE IF likedQueue[i] # <<>> THEN Last(likedQueue[i]) ELSE liked[i]
           again == Fetches(k) /\ ~RenderThrows(k, p, fs) /\ EffectRuns(Deps(k, p), Deps(k, p))
       IN /\ fetchState' = [fetchState EXCEPT ![i] = fs]
          /\ liked' = [liked EXCEPT ![i] = lk]
          /\ likedQueue' = [likedQueue EXCEPT ![i] = <<>>]
          /\ surface' = [surface EXCEPT ![i] = Output(k, p, fs, lk)]
          /\ crashed' = [crashed EXCEPT ![i] = RenderThrows(k, p, fs)]
          /\ IF again /\ sent[i] < MaxRequests
             THEN /\ net' = net \cup {Request(i, sent[i] + 1, k, p)}
                  /\ sent' = [sent EXCEPT ![i] = @ + 1]
                  /\ posted' = [posted EXCEPT ![i] = Append(@, Request(i, sent[i] + 1, k, p))]
                  /\ override' = Match(override, Request(i, sent[i] + 1, k, p))
                  /\ fetchQueue' = [fetchQueue EXCEPT ![i] =
                        IF fs.isLoading THEN <<>>
                        ELSE <<[isLoading |-> TRUE, data |-> fs.data, error |-> NoError]>>]
             ELSE /\ fetchQueue' = [fetchQueue EXCEPT ![i] = <<>>]
                  /\ UNCHANGED <<net, sent, posted, override>>
    /\ UNCHANGED <<server, kind, props, life, resolved, discarded, clicks, coalesced>>

(***************************************************************************)
(* The instance is unmounted: its DOM is removed and its state discarded.  *)
(***************************************************************************)
Unmount(i) ==
    /\ life[i] = "mounted"
    /\ life' = [life EXCEPT ![i] = "unmounted"]
    /\ surface' = [surface EXCEPT ![i] = Nothing]
    /\ fetchQueue' = [fetchQueue EXCEPT ![i] = <<>>]
    /\ likedQueue' = [likedQueue EXCEPT ![i] = <<>>]
    /\ UNCHANGED <<server, kind, props, fetchState, liked, crashed, net, sent, posted,
                   resolved, discarded, clicks, coalesced, override>>

Next ==
    \/ \E i \in Slots, k \in Kinds : \E p \in PropsOf(k) : Mount(i, k, p)
    \/ \E i \in Slots : InformsTheUserOfErrors(i)
    \/ \E r \in net : Respond(r)
    \/ \E r \in net : Deliver(r)
    \/ \E i \in Slots : Click(i)
    \/ \E i \in Slots : Render(i)
    \/ \E i \in Slots : Unmount(i)

Spec == Init /\ [][Next]_vars

\* React renders every queued state update of a mounted instance.
FairSpec == Spec /\ \A i \in Slots : WF_vars(Render(i))

(***************************************************************************)
(* What a test can find on the rendered surface of an instance.            *)
(***************************************************************************)
VisibleTexts(i) == {surface[i][k].text : k \in DOMAIN surface[i]}

WithRole(i, role) == {k \in DOMAIN surface[i] : surface[i][k].role = role}

ButtonLabels(i) == {surface[i][k].text : k \in WithRole(i, "button")}

IsLoader(i) == kind[i] = "QuoteLoader"

IsUploader(i) == kind[i] = "QuoteUploader"

\* The instance is mounted and every state it was given has been rendered.
Settled(i) == Accepts(i) /\ fetchQueue[i] = <<>> /\ likedQueue[i] = <<>>

\* The request of the instance resolved with 2xx and a body {text: s}, s a
\* non-empty string.
SucceededWithText(i) ==
    /\ ResponseOk(resolved[i])
    /\ resolved[i].bodyKind = "json"
    /\ resolved[i].json.t = "object"
    /\ resolved[i].json.text.t = "string"
    /\ resolved[i].json.text.v # ""

(***************************************************************************)
(* C1: for every successful GET response with body {text: s}, s a          *)
(* non-empty string, a mounted QuoteLoader reaches Succeeded{s} and        *)
(* renders the Quote with exactly the text s: every render after the       *)
(* delivery shows it, and the delivery is always followed by such a render *)
(* (or by the unmounting of the instance).                                 *)
(***************************************************************************)
C1_ShowsDeliveredText(i) ==
    /\ fetchState[i] = [isLoading |-> FALSE, data |-> resolved[i].json, error |-> NoError]
    /\ surface[i] = Quote(resolved[i].json.text, liked[i])
    /\ resolved[i].json.text.v \in VisibleTexts(i)

C1_RenderedSuccess ==
    \A i \in Slots :
        (IsLoader(i) /\ Accepts(i) /\ SucceededWithText(i) /\ fetchQueue[i] = <<>>)
            => C1_ShowsDeliveredText(i)

C1_FetchesThenRendersQuoteText ==
    /\ []C1_RenderedSuccess
    /\ \A i \in Slots :
          (IsLoader(i) /\ life[i] = "mounted" /\ SucceededWithText(i))
              ~> (life[i] # "mounted" \/ (fetchQueue[i] = <<>> /\ C1_ShowsDeliveredText(i)))

C1_Witness ==
    \E i \in Slots :
        /\ IsLoader(i) /\ Settled(i) /\ SucceededWithText(i)
        /\ resolved[i].json.text.v = "Truth eludes power"
        /\ "Truth eludes power" \in VisibleTexts(i)

(***************************************************************************)
(* C2: once a mounted QuoteLoader has rendered the outcome of a GET that   *)
(* resolved to a transport error, its surface is exactly the error message *)
(* and holds neither a status-role element nor any part of a Quote.        *)
(***************************************************************************)
C2_TransportErrorShowsMessage ==
    \A i \in Slots :
        (IsLoader(i) /\ Accepts(i) /\ resolved[i] = NetworkError /\ fetchQueue[i] = <<>>)
            => /\ VisibleTexts(i) = {ErrorMessage}
               /\ Len(surface[i]) = 1
               /\ WithRole(i, "status") = {}
               /\ WithRole(i, "heading") = {}
               /\ WithRole(i, "button") = {}

C2_Witness ==
    \E i \in Slots :
        /\ IsLoader(i) /\ Settled(i) /\ resolved[i] = NetworkError
        /\ ErrorMessage \in VisibleTexts(i)

(***************************************************************************)
(* C3: from the first render of a mounted QuoteLoader until its GET        *)
(* resolves, the surface holds exactly one status-role element, with the   *)
(* text "Quote is loading...", and neither the error message nor a Quote.  *)
(***************************************************************************)
C3_SpinnerWhilePending ==
    \A i \in Slots :
        (IsLoader(i) /\ life[i] = "mounted" /\ resolved[i] = NoResponse)
            => /\ Cardinality(WithRole(i, "status")) = 1
               /\ \A k \in WithRole(i, "status") : surface[i][k].text = LoadingReason
               /\ Len(surface[i]) = 1
               /\ ErrorMessage \notin VisibleTexts(i)
               /\ WithRole(i, "heading") = {}
               /\ WithRole(i, "button") = {}

C3_Witness ==
    \E i \in Slots :
        /\ IsLoader(i) /\ life[i] = "mounted" /\ resolved[i] = NoResponse
        /\ \E r \in net : r.owner = i /\ r.stage = "responded"
        /\ WithRole(i, "status") # {}

(***************************************************************************)
(* C4: for a mounted Quote whose every click was followed by a re-render,  *)
(* the button label after n clicks is "Liked" when n is odd and "Like"     *)
(* when n is even.                                                         *)
(***************************************************************************)
ShowsQuote(i) == Accepts(i) /\ HasQuote(kind[i], fetchState[i])

C4_LabelFollowsClickParity ==
    \A i \in Slots :
        (ShowsQuote(i) /\ likedQueue[i] = <<>> /\ ~coalesced[i])
            => ButtonLabels(i) = {IF clicks[i] % 2 = 1 THEN "Liked" ELSE "Like"}

C4_Witness ==
    \E i \in Slots :
        /\ kind[i] = "Quote" /\ ShowsQuote(i) /\ likedQueue[i] = <<>> /\ ~coalesced[i]
        /\ clicks[i] = 2
        /\ ButtonLabels(i) = {"Like"}

(***************************************************************************)
(* C5: for a QuoteUploader mounted with a non-empty string text, once its  *)
(* POST has resolved with 204 No Content and the outcome is rendered, the  *)
(* surface contains "Quote uploaded successfully".                         *)
(***************************************************************************)
HasNonEmptyText(i) == props[i].text.t = "string" /\ props[i].text.v # ""

C5_NoContentShowsSuccess ==
    \A i \in Slots :
        ( /\ IsUploader(i) /\ Accepts(i) /\ HasNonEmptyText(i)
          /\ resolved[i].type = "basic" /\ resolved[i].status = 204
          /\ fetchQueue[i] = <<>> )
            => SuccessMessage \in VisibleTexts(i)

(***************************************************************************)
(* C6: a QuoteUploader whose text is missing or is not a string, run       *)
(* against the POST stub that answers 400 for such bodies, never renders   *)
(* "Quote uploaded successfully".                                          *)
(***************************************************************************)
C6_InvalidUploadNeverSucceeds ==
    \A i \in Slots :
        (IsUploader(i) /\ server = "QuoteUploaderSpec" /\ props[i].text.t # "string")
            => SuccessMessage \notin VisibleTexts(i)

C6_Witness ==
    \E i \in Slots :
        /\ IsUploader(i) /\ server = "QuoteUploaderSpec" /\ props[i].text.t = "number"
        /\ Settled(i)
        /\ resolved[i] = TextResponse(400, "String required for field text")
        /\ fetchState[i].error # NoError

(***************************************************************************)
(* C7: a QuoteLoader instance issues exactly one GET over its lifetime,    *)
(* at mount, and so never has more than one request outstanding.           *)
(***************************************************************************)
Outstanding(i) == {r \in net : r.owner = i}

C7_ExactlyOneGet ==
    \A i \in Slots :
        (IsLoader(i) /\ life[i] # "free")
            => /\ sent[i] = 1
               /\ Len(posted[i]) = 1
               /\ posted[i][1].method = "GET" /\ posted[i][1].url = GetUrl
               /\ Cardinality(Outstanding(i)) <= 1

C7_Witness ==
    \E i \in Slots :
        /\ IsLoader(i) /\ Settled(i) /\ resolved[i] # NoResponse
        /\ clicks[i] = 2
        /\ sent[i] = 1

(***************************************************************************)
(* C8: a QuoteUploader instance issues exactly one POST over its lifetime, *)
(* with Content-Type application/json and a JSON body that is the object   *)
(* {text: t}, t the text the caller supplied, and no other field.          *)
(***************************************************************************)
C8_OnePostWithTextOnly ==
    \A i \in Slots :
        (IsUploader(i) /\ life[i] # "free")
            => /\ sent[i] = 1
               /\ Len(posted[i]) = 1
               /\ posted[i][1].method = "POST" /\ posted[i][1].url = PostUrl
               /\ posted[i][1].contentType = "application/json"
               /\ posted[i][1].body = Member("text", props[i].text)

(***************************************************************************)
(* C9: every click inverts liked exactly once, also when it is handled     *)
(* before the re-render of the previous click: after k clicks, once        *)
(* rendered, liked is (k is odd).                                          *)
(***************************************************************************)
C9_EveryClickToggles ==
    \A i \in Slots :
        (ShowsQuote(i) /\ likedQueue[i] = <<>>) => (liked[i] = (clicks[i] % 2 = 1))

(***************************************************************************)
(* C10: once an instance is unmounted, nothing that happens later - the    *)
(* arrival of its request's result included - updates its view-state,      *)
(* renders it or makes it throw.                                           *)
(***************************************************************************)
C10_LateResultDiscarded ==
    [][ \A i \in Slots :
            life[i] = "unmounted"
                => /\ fetchState'[i] = fetchState[i]
                   /\ fetchQueue'[i] = fetchQueue[i]
                   /\ liked'[i] = liked[i]
                   /\ surface'[i] = surface[i]
                   /\ crashed'[i] = crashed[i]
                   /\ sent'[i] = sent[i] ]_vars

C10_Witness ==
    \E i \in Slots :
        /\ Fetches(kind[i]) /\ life[i] = "unmounted" /\ discarded[i]
        /\ resolved[i] # NoResponse
        /\ fetchState[i] = FetchInitial /\ fetchQueue[i] = <<>>
        /\ surface[i] = Nothing /\ ~crashed[i]

(***************************************************************************)
(* C11: once a mounted QuoteLoader has rendered the outcome of a GET that  *)
(* resolved with a non-success status, it is Failed and its surface is the *)
(* single error message, the same surface a transport error gives.         *)
(***************************************************************************)
HttpErrorStatus(r) == r.type = "basic" /\ ~(r.status >= 200 /\ r.status <= 299)

Failed(fs) == fs.error # NoError

C11_ErrorStatusShowsSameMessage ==
    \A i \in Slots :
        (IsLoader(i) /\ Accepts(i) /\ HttpErrorStatus(resolved[i]) /\ fetchQueue[i] = <<>>)
            => /\ Failed(fetchState[i])
               /\ surface[i] = <<Element("p", "paragraph", 0, ErrorMessage)>>
               /\ surface[i] = QuoteLoader(useFetchSettled(NetworkError), liked[i])

C11_Witness ==
    \E i \in Slots :
        /\ IsLoader(i) /\ Settled(i)
        /\ resolved[i] = JsonResponse(404, ObjDoc(Str("No quote today"), Undefined, Undefined))
        /\ VisibleTexts(i) = {ErrorMessage}

(***************************************************************************)
(* The render decision of QuoteLoader as a function of what useFetch       *)
(* returns: a mounted QuoteLoader is handed every combination of error,    *)
(* isLoading and data, and renders it.                                     *)
(***************************************************************************)
DataValues ==
    { UndefinedDoc, PrimDoc(Null), PrimDoc(Num("0")), PrimDoc(Str("")), PrimDoc(Bool("false")),
      PrimDoc(Num("7")), PrimDoc(Str("plain")), PrimDoc(Bool("true")),
      ObjDoc(Str("Just do it"), Undefined, Undefined),
      ObjDoc(Undefined, Undefined, Undefined) }

FetchStates ==
    { [isLoading |-> l, data |-> d, error |-> e] :
        l \in BOOLEAN, d \in DataValues, e \in {NoError, "TypeError: Failed to fetch"} }

RenderInit ==
    /\ server \in Servers
    /\ kind = [i \in Slots |-> IF i = 1 THEN "QuoteLoader" ELSE "none"]
    /\ life = [i \in Slots |-> IF i = 1 THEN "mounted" ELSE "free"]
    /\ props = [i \in Slots |-> NoProps]
    /\ fetchState = [i \in Slots |-> FetchInitial]
    /\ \E fs \in FetchStates : fetchQueue = [i \in Slots |-> IF i = 1 THEN <<fs>> ELSE <<>>]
    /\ liked = [i \in Slots |-> FALSE]
    /\ likedQueue = [i \in Slots |-> <<>>]
    /\ surface = [i \in Slots |-> IF i = 1 THEN QuoteLoader(FetchInitial, FALSE) ELSE Nothing]
    /\ crashed = [i \in Slots |-> FALSE]
    /\ net = {}
    /\ sent = [i \in Slots |-> IF i = 1 THEN 1 ELSE 0]
    /\ posted = [i \in Slots |-> IF i = 1 THEN <<Request(1, 1, "QuoteLoader", NoProps)>> ELSE <<>>]
    /\ resolved = [i \in Slots |-> NoResponse]
    /\ discarded = [i \in Slots |-> FALSE]
    /\ clicks = [i \in Slots |-> 0]
    /\ coalesced = [i \in Slots |-> FALSE]
    /\ override = NoOverride

RenderNext ==
    \/ \E i \in Slots : Render(i)
    \/ \E i \in Slots : Click(i)

RenderSpec == RenderInit /\ [][RenderNext]_vars

(***************************************************************************)
(* C12: QuoteLoader decides its output by testing error, then isLoading,   *)
(* then data: a truthy error gives the error message whatever the other    *)
(* two are; otherwise isLoading gives the spinner whatever data is;        *)
(* otherwise truthy data gives the Quote; otherwise nothing is rendered.   *)
(***************************************************************************)
C12_Expected(fs, lk) ==
    IF fs.error # NoError
    THEN <<Element("p", "paragraph", 0, ErrorMessage)>>
    ELSE IF fs.isLoading
         THEN <<Element("div", "status", 0, LoadingReason)>>
         ELSE IF Truthy(fs.data)
              THEN << Element("h2", "heading", 2, "Quote of the Day"),
                      Element("p", "paragraph", 0,
                              IF fs.data.t = "object" /\ fs.data.text.t = "string"
                              THEN fs.data.text.v ELSE ""),
                      Element("button", "button", 0, IF lk THEN "Liked" ELSE "Like") >>
              ELSE <<>>

C12_ErrorThenPendingThenData ==
    \A i \in Slots :
        (IsLoader(i) /\ Accepts(i) /\ fetchQueue[i] = <<>>)
            => surface[i] = C12_Expected(fetchState[i], liked[i])

C12_Witness ==
    \E i \in Slots :
        /\ IsLoader(i) /\ Settled(i)
        /\ fetchState[i].error # NoError /\ fetchState[i].isLoading /\ Truthy(fetchState[i].data)
        /\ VisibleTexts(i) = {ErrorMessage}

(***************************************************************************)
(* C13: each POST stub handler answers 204 No Content exactly when the     *)
(* text of the request body is present and is a string, 400 "Missing quote *)
(* text" when text is absent, and 400 "String required for field text"     *)
(* when text is present but is not a string.                               *)
(***************************************************************************)
C13_Answer(r) ==
    LET text == WireField(r.body, "text") IN
    /\ (r.response.type = "basic" /\ r.response.status = 204) <=> (text.t = "string")
    /\ text.t = "undefined" => r.response = TextResponse(400, "Missing quote text")
    /\ text.t \notin {"undefined", "string"}
          => r.response = TextResponse(400, "String required for field text")

C13_StubPostContract ==
    \A r \in net :
        (r.method = "POST" /\ r.stage = "responded" /\ server # "none") => C13_Answer(r)

(***************************************************************************)
(* C14: when the GET resolves with a success status and a body without a   *)
(* text field, QuoteLoader enters Failed and renders the error message,    *)
(* not a Quote.                                                            *)
(***************************************************************************)
SucceededWithoutText(i) ==
    /\ ResponseOk(resolved[i])
    /\ resolved[i].bodyKind = "json"
    /\ resolved[i].json.t = "object"
    /\ resolved[i].json.text.t = "undefined"

C14_MissingTextIsFailure ==
    \A i \in Slots :
        (IsLoader(i) /\ life[i] = "mounted" /\ SucceededWithoutText(i) /\ fetchQueue[i] = <<>>)
            => /\ Failed(fetchState[i])
               /\ VisibleTexts(i) = {ErrorMessage}
               /\ WithRole(i, "heading") = {}

(***************************************************************************)
(* C15: whatever the outcome of the request - transport error, error       *)
(* status, or success with any JSON body, a body whose text is missing or  *)
(* is not a string included - no render of a QuoteLoader throws.           *)
(***************************************************************************)
C15_NoUncaughtException ==
    \A i \in Slots : IsLoader(i) => ~crashed[i]

(***************************************************************************)
(* C16: the liked flag of a mounted instance changes only in a click on    *)
(* its own button - no request, response, failure or re-render changes     *)
(* it - and a click issues no request and leaves the fetch view-state of   *)
(* the instance as it was.                                                 *)
(***************************************************************************)
\* The value of liked that the next render will show.
CurrentLiked(i) == IF likedQueue[i] # <<>> THEN Last(likedQueue[i]) ELSE liked[i]

C16_LikedOnlyByClick ==
    [][ \A i \in Slots :
            (life[i] = "mounted" /\ life'[i] = "mounted")
                => /\ (CurrentLiked(i)' # CurrentLiked(i)) => (clicks'[i] = clicks[i] + 1)
                   /\ (clicks'[i] # clicks[i])
                         => /\ net' = net
                            /\ sent' = sent
                            /\ fetchState' = fetchState
                            /\ fetchQueue' = fetchQueue ]_vars

C16_Witness ==
    \E i \in Slots :
        /\ IsLoader(i) /\ Settled(i) /\ SucceededWithText(i)
        /\ clicks[i] = 1 /\ liked[i]
        /\ sent[i] = 1 /\ net = {}
        /\ fetchState[i].data = resolved[i].json

(***************************************************************************)
(* C17: in every state of a mounted Quote, whatever its text (absent       *)
(* included) and whatever liked is, the surface has one level-2 heading    *)
(* "Quote of the Day", one body paragraph showing exactly the text (empty  *)
(* when absent), and exactly one button.                                   *)
(***************************************************************************)
C17_Shape(i, text) ==
    /\ Cardinality(WithRole(i, "heading")) = 1
    /\ \A k \in WithRole(i, "heading") :
          surface[i][k].level = 2 /\ surface[i][k].text = "Quote of the Day"
    /\ Cardinality(WithRole(i, "paragraph")) = 1
    /\ \A k \in WithRole(i, "paragraph") :
          surface[i][k].text = (IF text.t \in {"string", "number"} THEN text.v ELSE "")
    /\ Cardinality(WithRole(i, "button")) = 1
    /\ Len(surface[i]) = 3

C17_QuoteShape ==
    \A i \in Slots :
        ShowsQuote(i) => C17_Shape(i, IF kind[i] = "Quote" THEN props[i].text
                                      ELSE DataText(fetchState[i].data))

C17_Witness ==
    \E i \in Slots :
        /\ kind[i] = "Quote" /\ ShowsQuote(i) /\ props[i].text.t = "undefined"
        /\ liked[i]
        /\ "" \in VisibleTexts(i) /\ "Quote of the Day" \in VisibleTexts(i)

(***************************************************************************)
(* C18: a QuoteLoader is at every instant in exactly one of Idle, Pending, *)
(* Failed and Succeeded, and renders the one branch of that state: the     *)
(* error message, the spinner and the Quote are never shown together.      *)
(***************************************************************************)
Pending(fs) == fs.isLoading /\ ~Failed(fs)

Succeeded(fs) == ~fs.isLoading /\ ~Failed(fs) /\ Truthy(fs.data)

Idle(fs) == ~fs.isLoading /\ ~Failed(fs) /\ ~Truthy(fs.data)

ShowsError(i) == ErrorMessage \in VisibleTexts(i)

ShowsSpinner(i) == WithRole(i, "status") # {}

ShowsQuoteParts(i) == WithRole(i, "heading") # {} \/ WithRole(i, "button") # {}

C18_OneViewStateOneBranch ==
    \A i \in Slots :
        (IsLoader(i) /\ life[i] = "mounted")
            => /\ ~(fetchState[i].error # NoError /\ fetchState[i].isLoading)
               /\ ~(fetchState[i].error # NoError /\ Truthy(fetchState[i].data))
               /\ ~(fetchState[i].isLoading /\ Truthy(fetchState[i].data))
               /\ ~(ShowsError(i) /\ ShowsSpinner(i))
               /\ ~(ShowsError(i) /\ ShowsQuoteParts(i))
               /\ ~(ShowsSpinner(i) /\ ShowsQuoteParts(i))
               /\ ~crashed[i]
                     => /\ ShowsError(i) <=> Failed(fetchState[i])
                        /\ ShowsSpinner(i) <=> Pending(fetchState[i])
                        /\ ShowsQuoteParts(i) <=> Succeeded(fetchState[i])
                        /\ (surface[i] = Nothing) <=> Idle(fetchState[i])

C18_Witness ==
    \E i \in Slots :
        /\ IsLoader(i) /\ Settled(i)
        /\ Succeeded(fetchState[i])
        /\ ShowsQuoteParts(i) /\ ~ShowsError(i) /\ ~ShowsSpinner(i)

(***************************************************************************)
(* C19: the view-state of a QuoteLoader only moves forward along Idle,     *)
(* Pending, then Failed or Succeeded: once Failed it stays Failed and      *)
(* keeps rendering the error message, and once Succeeded it never returns  *)
(* to Pending or Failed.                                                   *)
(***************************************************************************)
Rank(fs) == IF Idle(fs) THEN 0 ELSE IF Pending(fs) THEN 1 ELSE 2

\* Failed and Succeeded are kept by the step.
C19_Terminal(i) ==
    /\ Failed(fetchState[i]) => (Failed(fetchState'[i]) /\ VisibleTexts(i)' = {ErrorMessage})
    /\ Succeeded(fetchState[i]) => Succeeded(fetchState'[i])

C19_TerminalStatesKept ==
    [][ \A i \in Slots :
            (IsLoader(i) /\ life[i] = "mounted" /\ life'[i] = "mounted") => C19_Terminal(i) ]_vars

C19_ViewStateMovesForward ==
    [][ \A i \in Slots :
            (IsLoader(i) /\ life[i] = "mounted" /\ life'[i] = "mounted")
                => /\ Rank(fetchState'[i]) >= Rank(fetchState[i])
                   /\ C19_Terminal(i) ]_vars

(***************************************************************************)
(* C20: the status-role element is on the surface of a QuoteLoader only    *)
(* while its view-state is Pending; once the outcome of the request has    *)
(* been rendered there is no status-role element.                          *)
(***************************************************************************)
C20_SpinnerOnlyWhilePending ==
    \A i \in Slots :
        (IsLoader(i) /\ life[i] = "mounted")
            => /\ ShowsSpinner(i) => Pending(fetchState[i])
               /\ (resolved[i] # NoResponse /\ fetchQueue[i] = <<>>) => ~ShowsSpinner(i)
               /\ (Failed(fetchState[i]) \/ Succeeded(fetchState[i])) => ~ShowsSpinner(i)

C20_Witness ==
    \E i \in Slots :
        /\ IsLoader(i) /\ Settled(i)
        /\ Failed(fetchState[i])
        /\ resolved[i] = TextResponse(500, "Internal Server Error")
        /\ ~ShowsSpinner(i) /\ ShowsError(i)

(***************************************************************************)
(* C21: in every state of a mounted QuoteUploader, "Quote uploaded         *)
(* successfully" is rendered if and only if the POST has resolved without  *)
(* error; while the POST is pending and after it has failed the surface    *)
(* is empty.                                                               *)
(***************************************************************************)
\* The POST of the instance settled without an error, as useFetch judges it.
PostSucceeded(i) == resolved[i] # NoResponse /\ useFetchSettled(resolved[i]).error = NoError

\* The outcome of the POST, once rendered; before that, the pending state.
C21_Rendered(i) ==
    IF fetchQueue[i] = <<>> /\ resolved[i] # NoResponse THEN "resolved" ELSE "pending"

C22_LabelOf(flag) == IF flag THEN "Liked" ELSE "Like"

C22_LabelAgreesWithLiked ==
    /\ [](\A i \in Slots : ShowsQuote(i) => ButtonLabels(i) = {C22_LabelOf(liked[i])})
    /\ [][ \A i \in Slots :
              (ShowsQuote(i) /\ ShowsQuote(i)' /\ liked'[i] # liked[i])
                  => /\ ButtonLabels(i)' = {C22_LabelOf(liked'[i])}
                     /\ ButtonLabels(i)' # {C22_LabelOf(liked[i])}
                     /\ ButtonLabels(i)' # ButtonLabels(i) ]_vars

C22_Witness ==
    \E i \in Slots :
        /\ IsLoader(i) /\ ShowsQuote(i) /\ likedQueue[i] = <<>>
        /\ clicks[i] = 3 /\ liked[i] /\ ~coalesced[i]
        /\ ButtonLabels(i) = {"Liked"}

(***************************************************************************)
(* C23: view-state is never shared between instances: a click on one       *)
(* Quote leaves the liked flag and the label of every other instance       *)
(* unchanged, and the outcome of the request of one QuoteLoader or         *)
(* QuoteUploader never changes the view-state of another instance.         *)
(***************************************************************************)
\* Everything an instance owns: its hook states, queued updates and output.
View(i) == <<fetchState[i], fetchQueue[i], liked[i], likedQueue[i], surface[i], crashed[i]>>

\* The request r was issued by the useFetch call of instance i.
IssuedBy(r, i) ==
    \E n \in DOMAIN posted[i] : posted[i][n].id = r.id /\ posted[i][n].owner = r.owner

\* The step settles a request that instance i issued.
C23_OutcomeOf(i) ==
    \E r \in net : r \notin net' /\ r.stage = "responded" /\ IssuedBy(r, i)

C23_NoSharedViewState ==
    [][ \A i, j \in Slots :
            i # j =>
                /\ (clicks'[i] # clicks[i]) => View(j)' = View(j)
                /\ C23_OutcomeOf(i) => View(j)' = View(j)
                /\ (life[i] = "mounted" /\ life'[i] = "mounted" /\ View(i)' # View(i))
                      => View(j)' = View(j) ]_vars

C23_Witness ==
    \E i, j \in Slots :
        /\ IsLoader(i) /\ Settled(i) /\ SucceededWithText(i)
        /\ clicks[i] = 1 /\ liked[i] /\ ButtonLabels(i) = {"Liked"}
        /\ IsLoader(j) /\ life[j] = "mounted" /\ resolved[j] = NoResponse
        /\ fetchState[j] = FetchInitial /\ fetchQueue[j] = <<>>
        /\ ~liked[j] /\ ShowsSpinner(j)

(***************************************************************************)
(* C24: the liked flag lives exactly as long as its Quote instance:        *)
(* whatever number of clicks a Quote received before it was unmounted, a   *)
(* Quote that appears afterwards starts with liked false and the label     *)
(* "Like".                                                                 *)
(***************************************************************************)
C24_NewQuoteStartsUnliked ==
    [][ \A i \in Slots :
            (~ShowsQuote(i) /\ ShowsQuote(i)')
                => /\ liked'[i] = FALSE
                   /\ likedQueue'[i] = <<>>
                   /\ ButtonLabels(i)' = {"Like"} ]_vars

C24_Witness ==
    \E i, j \in Slots :
        /\ kind[j] = "Quote" /\ life[j] = "unmounted" /\ clicks[j] = 3 /\ liked[j]
        /\ kind[i] = "Quote" /\ ShowsQuote(i) /\ clicks[i] = 0
        /\ ~liked[i] /\ ButtonLabels(i) = {"Like"}

(***************************************************************************)
(* C25: a click on the Like button changes only the liked flag and the     *)
(* button label: the heading and the displayed quote text are the same     *)
(* before and after any number of clicks.                                  *)
(***************************************************************************)
TextsWithRole(i, role) == {surface[i][k].text : k \in WithRole(i, role)}

C25_ClickKeepsHeadingAndText ==
    [][ \A i \in Slots :
            (ShowsQuote(i) /\ ShowsQuote(i)')
                => /\ TextsWithRole(i, "heading")' = TextsWithRole(i, "heading")
                   /\ TextsWithRole(i, "paragraph")' = TextsWithRole(i, "paragraph")
                   /\ Len(surface'[i]) = Len(surface[i])
                   /\ \A k \in DOMAIN surface[i] :
                         surface[i][k].role # "button" => surface'[i][k] = surface[i][k]
                   /\ (clicks'[i] # clicks[i]) => surface'[i] = surface[i] ]_vars

C25_Witness ==
    \E i \in Slots :
        /\ kind[i] = "Quote" /\ ShowsQuote(i) /\ likedQueue[i] = <<>>
        /\ clicks[i] = 3 /\ liked[i]
        /\ TextsWithRole(i, "heading") = {"Quote of the Day"}
        /\ TextsWithRole(i, "paragraph") = {"Truth eludes power"}

(***************************************************************************)
(* C26: once the GET of a mounted QuoteLoader has resolved and its outcome *)
(* is rendered, the surface is never blank: it shows the error message or  *)
(* a Quote, for every response, a success whose parsed body is a falsy     *)
(* JSON value included.                                                    *)
(***************************************************************************)
C26_NeverBlankAfterResolution ==
    \A i \in Slots :
        (IsLoader(i) /\ Accepts(i) /\ resolved[i] # NoResponse /\ fetchQueue[i] = <<>>)
            => /\ surface[i] # Nothing
               /\ ShowsError(i) \/ ShowsQuoteParts(i)

(***************************************************************************)
(* The assumption that every request eventually resolves: the server       *)
(* answers every request it received, and every fetch promise settles.     *)
(***************************************************************************)
ResolvingSpec ==
    /\ FairSpec
    /\ WF_vars(\E r \in net : Respond(r))
    /\ WF_vars(\E r \in net : Deliver(r))

(***************************************************************************)
(* C27: a QuoteLoader leaves Pending only when its request resolves: as    *)
(* long as no response has arrived it stays Pending and shows the spinner  *)
(* (there is no timeout), and if every request eventually resolves,        *)
(* Pending is always eventually followed by Failed or Succeeded.           *)
(***************************************************************************)
\* No step takes a mounted QuoteLoader out of Pending before its request
\* has resolved, and until then the spinner is shown.
C27_NoTimeout ==
    /\ [](\A i \in Slots :
            (IsLoader(i) /\ life[i] = "mounted" /\ resolved[i] = NoResponse)
                => (Pending(fetchState[i]) /\ ShowsSpinner(i)))
    /\ [][ \A i \in Slots :
              (IsLoader(i) /\ life[i] = "mounted" /\ life'[i] = "mounted"
                 /\ Pending(fetchState[i]) /\ ~Pending(fetchState'[i]))
                  => resolved[i] # NoResponse ]_vars

\* A mounted Pending QuoteLoader eventually leaves Pending.
C27_PendingEnds ==
    \A i \in Slots :
        (IsLoader(i) /\ life[i] = "mounted" /\ Pending(fetchState[i]))
            ~> (life[i] # "mounted" \/ ~Pending(fetchState[i]))

C27_PendingEndsFailedOrSucceeded ==
    /\ C27_NoTimeout
    /\ \A i \in Slots :
          (IsLoader(i) /\ life[i] = "mounted" /\ Pending(fetchState[i]))
              ~> (life[i] # "mounted" \/ Failed(fetchState[i]) \/ Succeeded(fetchState[i]))

(***************************************************************************)
(* C28: in the QuoteLoader suite, whose tests share one stub server, the   *)
(* one-shot network-error handler registered by "informs the user of       *)
(* errors" is consumed by exactly one GET, the one issued by the           *)
(* QuoteLoader that this test renders; a GET still in flight from a        *)
(* QuoteLoader rendered by an earlier test never consumes it, and every    *)
(* other GET receives {text: "Just do it"}.                                *)
(***************************************************************************)
JustDoIt == JsonResponse(200, ObjDoc(Str("Just do it"), Undefined, Undefined))

\* The response the suite expects for the GET of instance i.
C28_Expected(i) == IF override.registered /\ i = override.test THEN NetworkError ELSE JustDoIt

C28_OverrideConsumedByItsTest ==
    server = "QuoteLoaderSpec" =>
        /\ override.registered => (override.used /\ override.taken = {<<override.test, 1>>})
        /\ ~override.registered => override.taken = {}
        /\ \A r \in net :
              (r.method = "GET" /\ r.stage = "responded") => r.response = C28_Expected(r.owner)
        /\ \A i \in Slots :
              (IsLoader(i) /\ resolved[i] # NoResponse) => resolved[i] = C28_Expected(i)

C28_Witness ==
    \E i, j \in Slots :
        /\ server = "QuoteLoaderSpec" /\ i < j
        /\ override.test = j /\ IsLoader(j) /\ Settled(j)
        /\ resolved[j] = NetworkError /\ ShowsError(j)
        /\ IsLoader(i) /\ life[i] = "unmounted" /\ resolved[i] = NoResponse
        /\ \E r \in net : r.owner = i /\ r.stage = "responded" /\ r.response = JustDoIt

(***************************************************************************)
(* The two versions of Quote side by side: both are rendered with the same *)
(* text, and every click event is given to both - first to the version     *)
(* with the buttonText variable, then to the version with the inline       *)
(* label - and both re-render after the same events.                       *)
(***************************************************************************)
QuoteVersionsInit ==
    /\ server \in Servers
    /\ kind = [i \in Slots |-> IF i = 1 THEN "Quote" ELSE "QuoteInline"]
    /\ life = [i \in Slots |-> "mounted"]
    /\ \E p \in PropsOf("Quote") :
          /\ props = [i \in Slots |-> p]
          /\ surface = [i \in Slots |->
                Output(IF i = 1 THEN "Quote" ELSE "QuoteInline", p, FetchInitial, useStateFalse(i))]
    /\ fetchState = [i \in Slots |-> FetchInitial]
    /\ fetchQueue = [i \in Slots |-> <<>>]
    /\ liked = [i \in Slots |-> useStateFalse(i)]
    /\ likedQueue = [i \in Slots |-> <<>>]
    /\ crashed = [i \in Slots |-> FALSE]
    /\ net = {}
    /\ sent = [i \in Slots |-> 0]
    /\ posted = [i \in Slots |-> <<>>]
    /\ resolved = [i \in Slots |-> NoResponse]
    /\ discarded = [i \in Slots |-> FALSE]
    /\ clicks = [i \in Slots |-> 0]
    /\ coalesced = [i \in Slots |-> FALSE]
    /\ override = NoOverride

\* Both versions have been given the same events.
InStep == clicks[1] = clicks[2] /\ Len(likedQueue[1]) = Len(likedQueue[2])

QuoteVersionsNext ==
    \/ InStep /\ Click(1)
    \/ InStep /\ Render(1)
    \/ clicks[2] < clicks[1] /\ Click(2)
    \/ clicks[2] = clicks[1] /\ Len(likedQueue[2]) > Len(likedQueue[1]) /\ Render(2)

QuoteVersionsSpec == QuoteVersionsInit /\ [][QuoteVersionsNext]_vars

(***************************************************************************)
(* C29: the two versions of Quote - label computed into buttonText, label  *)
(* computed inline in the button - are observationally equivalent: started *)
(* together with the same text and given the same click events, they       *)
(* render the same heading, body and button label in every state.          *)
(***************************************************************************)
C29_VersionsRenderTheSame ==
    (kind[1] = "Quote" /\ kind[2] = "QuoteInline" /\ InStep)
        => /\ surface[1] = surface[2]
           /\ TextsWithRole(1, "heading") = TextsWithRole(2, "heading")
           /\ TextsWithRole(1, "paragraph") = TextsWithRole(2, "paragraph")
           /\ ButtonLabels(1) = ButtonLabels(2)
           /\ liked[1] = liked[2]

C29_Witness ==
    /\ kind[1] = "Quote" /\ kind[2] = "QuoteInline" /\ InStep
    /\ clicks[2] = 3 /\ coalesced[2] /\ likedQueue[2] = <<>>
    /\ props[2].text = Str("Truth eludes power")
    /\ ButtonLabels(1) = {"Liked"} /\ ButtonLabels(2) = {"Liked"}

(***************************************************************************)
(* The versions of QuoteLoader side by side: two different versions are    *)
(* rendered, each issues its GET, and the requests run their course.       *)
(***************************************************************************)
VersionPairs ==
    { <<"QuoteLoaderDataOnly", "QuoteLoaderWithSpinner">>,
      <<"QuoteLoaderDataOnly", "QuoteLoader">>,
      <<"QuoteLoaderWithSpinner", "QuoteLoader">> }

LoaderVersionsInit ==
    /\ server \in Servers
    /\ \E v \in VersionPairs :
          /\ kind = [i \in Slots |-> v[i]]
          /\ surface = [i \in Slots |-> Output(v[i], NoProps, FetchInitial, useStateFalse(i))]
          /\ net = {Request(i, 1, v[i], NoProps) : i \in Slots}
          /\ posted = [i \in Slots |-> <<Request(i, 1, v[i], NoProps)>>]
    /\ life = [i \in Slots |-> "mounted"]
    /\ props = [i \in Slots |-> NoProps]
    /\ fetchState = [i \in Slots |-> FetchInitial]
    /\ fetchQueue = [i \in Slots |-> <<>>]
    /\ liked = [i \in Slots |-> useStateFalse(i)]
    /\ likedQueue = [i \in Slots |-> <<>>]
    /\ crashed = [i \in Slots |-> FALSE]
    /\ sent = [i \in Slots |-> 1]
    /\ resolved = [i \in Slots |-> NoResponse]
    /\ discarded = [i \in Slots |-> FALSE]
    /\ clicks = [i \in Slots |-> 0]
    /\ coalesced = [i \in Slots |-> FALSE]
    /\ override = NoOverride

LoaderVersionsNext ==
    \/ \E r \in net : Respond(r)
    \/ \E r \in net : Deliver(r)
    \/ \E i \in Slots : Click(i)
    \/ \E i \in Slots : Render(i)
    \/ \E i \in Slots : Unmount(i)

LoaderVersionsSpec == LoaderVersionsInit /\ [][LoaderVersionsNext]_vars

(***************************************************************************)
(* C30: the three versions of QuoteLoader (data only; isLoading then data; *)
(* error then isLoading then data) agree on the happy path: for every      *)
(* request that ends in success with body {text: s}, each ends by          *)
(* rendering the same Quote with text s.  They differ only in what is      *)
(* rendered while the request is pending (nothing or the spinner) and      *)
(* after a failure (nothing or the error message).                         *)
(***************************************************************************)
\* The outcome of the instance's request has been rendered.
C30_Rendered(i) == Accepts(i) /\ resolved[i] # NoResponse /\ fetchQueue[i] = <<>>

C30_RequestFailed(i) == useFetchSettled(resolved[i]).error # NoError

C30_QuoteWith(s, lk) ==
    << Element("h2", "heading", 2, "Quote of the Day"),
       Element("p", "paragraph", 0, s),
       Element("button", "button", 0, IF lk THEN "Liked" ELSE "Like") >>

C30_VersionsAgreeOnSuccess ==
    /\ \A i \in Slots :
          (kind[i] \in LoaderVersions /\ C30_Rendered(i) /\ SucceededWithText(i))
              => surface[i] = C30_QuoteWith(resolved[i].json.text.v, liked[i])
    /\ \A i \in Slots :
          (kind[i] \in LoaderVersions /\ life[i] = "mounted" /\ resolved[i] = NoResponse)
              => surface[i] = (IF kind[i] = "QuoteLoaderDataOnly"
                               THEN <<>>
                               ELSE <<Element("div", "status", 0, LoadingReason)>>)
    /\ \A i \in Slots :
          (kind[i] \in LoaderVersions /\ C30_Rendered(i) /\ C30_RequestFailed(i))
              => surface[i] = (IF kind[i] = "QuoteLoader"
                               THEN <<Element("p", "paragraph", 0, ErrorMessage)>>
                               ELSE <<>>)
    /\ \A i, j \in Slots :
          ( /\ kind[i] \in LoaderVersions /\ kind[j] \in LoaderVersions
            /\ C30_Rendered(i) /\ C30_Rendered(j)
            /\ resolved[i] = resolved[j] /\ ~C30_RequestFailed(i)
            /\ liked[i] = liked[j] )
              => surface[i] = surface[j]

C30_Witness ==
    /\ kind[1] = "QuoteLoaderDataOnly" /\ kind[2] = "QuoteLoader"
    /\ \A i \in Slots :
          /\ Settled(i) /\ C30_Rendered(i)
          /\ resolved[i] = JsonResponse(200, ObjDoc(Str("Truth eludes power"), Undefined, Undefined))
          /\ "Truth eludes power" \in VisibleTexts(i)
    /\ surface[1] = surface[2]

=============================================================================
